---- MODULE Spec2Model ----
(***************************************************************************)
(* Voxelization cells of labs/L6-protein-deep-learning/laboratory.ipynb.   *)
(*                                                                         *)
(* The notebook keeps its state in kernel globals (mol, pos, bounding_box, *)
(* box_size, grid, and the loop variables i and position).  Every code     *)
(* cell is one action; the rasterization loop is one action per iteration. *)
(* Coordinates are real numbers in Angstroms; the model keeps them as      *)
(* integers counted in 1/Scale Angstrom, so that floor and ceil are exact. *)
(*                                                                         *)
(* Two ways of running the notebook are modelled.  Spec is "Restart & Run  *)
(* All": the cells run once, top to bottom, and the run stops at the first *)
(* cell that raises.  SpecRerun is the interactive use the execution       *)
(* counts of the notebook show (13, 34, 14, 15, 28, ...): any cell may be  *)
(* run whenever the kernel is idle, so a cell can read globals left by an  *)
(* earlier run of the cells above it.                                      *)
(***************************************************************************)
EXTENDS Integers, Sequences, FiniteSets, TLC

VARIABLES mol, pos, bounding_box, box_size, grid, position, i,
          defined, pc, err, next, loads

vars == <<mol, pos, bounding_box, box_size, grid, position, i,
          defined, pc, err, next, loads>>

----------------------------------------------------------------------------
(* Bounds of the model *)

\* longest atom sequence a file holds in the run-all specification
MaxAtoms == 2
\* longest atom sequence a file holds in the interactive specification
MaxRerunAtoms == 2
\* how often the file is (re)loaded in the interactive specification
MaxLoads == 2

----------------------------------------------------------------------------
(* Program constants and input universe *)

\* coordinates are counted in 1/Scale Angstrom (a PDB file gives them as
\* fixed-point decimals, so differences and floor/ceil are taken exactly)
Scale == 10

\* symbols = ['C', 'N', 'O', 'S']
symbols == <<"C", "N", "O", "S">>

\* the literal 4 of np.zeros([*box_size, 4])
Channels == 4

Axes == 1..3

\* element symbols a PDB file may carry; "P" is not in symbols
Elements == {"C", "N", "O", "S", "P"}

\* atom positions (x, y, z) in 1/Scale Angstrom
Positions ==
    { <<2, 3, 1>>, <<18, 11, 9>>, <<0, 0, 0>>, <<20, 20, 10>>,
      <<-7, 11, 9>>, <<10, 3, 1>> }

Atoms == [element : Elements, p : Positions]

RerunAtoms ==
    { [element |-> "C", p |-> <<2, 3, 1>>],
      [element |-> "N", p |-> <<18, 11, 9>>],
      [element |-> "S", p |-> <<-7, 11, 9>>],
      [element |-> "O", p |-> <<38, 11, 9>>] }

SeqsUpTo(S, n) == UNION { [1..k -> S] : k \in 0..n }

\* contents of the PDB file: the atoms of the molecule, in file order
Mols == SeqsUpTo(Atoms, MaxAtoms)

RerunMols == SeqsUpTo(RerunAtoms, MaxRerunAtoms) \ { <<>> }

----------------------------------------------------------------------------
(* numpy / Python helpers *)

\* np.floor of x/Scale, as an integer number of Angstroms
Floor(x) == x \div Scale

\* np.ceil of x/Scale
Ceil(x) == -((-x) \div Scale)

SetMin(S) == CHOOSE x \in S : \A y \in S : x <= y

SetMax(S) == CHOOSE x \in S : \A y \in S : x >= y

\* pos.min(axis=0), pos.max(axis=0)
ColMin(ps) == [a \in Axes |-> SetMin({ ps[k][a] : k \in 1..Len(ps) })]

ColMax(ps) == [a \in Axes |-> SetMax({ ps[k][a] : k \in 1..Len(ps) })]

\* mol.GetConformer().GetPositions(): one row per atom
PositionsOf(m) == [k \in 1..Len(m) |-> m[k].p]

\* (np.floor(pos.min(axis=0)), np.ceil(pos.max(axis=0))), for non-empty pos
BoundingBoxOf(ps) ==
    << [a \in Axes |-> Floor(ColMin(ps)[a])],
       [a \in Axes |-> Ceil(ColMax(ps)[a])] >>

\* mutant: the far corner counted as a voxel of its own
BoxSizeOf_inclusive(bb) == [a \in Axes |-> bb[2][a] - bb[1][a] + 1]

\* (bounding_box[1] - bounding_box[0]).astype(int)
BoxSizeOf(bb) == [a \in Axes |-> bb[2][a] - bb[1][a]]

\* index set of an array of the given shape (0-based)
Cells(shape) ==
    { <<x, y, z, c>> : x \in 0..(shape[1] - 1), y \in 0..(shape[2] - 1),
                       z \in 0..(shape[3] - 1), c \in 0..(shape[4] - 1) }

\* np.zeros([*box_size, 4])
Zeros(sz) ==
    LET shape == <<sz[1], sz[2], sz[3], Channels>>
    IN  [shape |-> shape, cells |-> [c \in Cells(shape) |-> 0]]

\* mutant: the channel counted from 1
IndexOf_oneBased(list, s) ==
    CHOOSE k \in 1..Len(list) :
        list[k] = s /\ \A j \in 1..(k - 1) : list[j] # s

\* symbols.index(symbol), 0-based, for a symbol that is in the list
IndexOf(list, s) ==
    (CHOOSE k \in 1..Len(list) :
        list[k] = s /\ \A j \in 1..(k - 1) : list[j] # s) - 1

InList(list, s) == \E k \in 1..Len(list) : list[k] = s

\* mutant: the offset rounded up instead of down
PositionOf_ceil(p, bb) == [a \in Axes |-> Ceil(p[a] - bb[1][a] * Scale)]

\* np.floor(pos[i] - bounding_box[0]).astype(int)
PositionOf(p, bb) == [a \in Axes |-> Floor(p[a] - bb[1][a] * Scale)]

\* numpy accepts index k on an axis of length n when -n <= k < n
IndexOk(k, n) == -n <= k /\ k < n

\* ... and a negative k addresses element n + k
Wrap(k, n) == IF k < 0 THEN n + k ELSE k

\* the cell a (possibly negative) index addresses
CellAt(g, idx, ch) ==
    << Wrap(idx[1], g.shape[1]), Wrap(idx[2], g.shape[2]),
       Wrap(idx[3], g.shape[3]), Wrap(ch, g.shape[4]) >>

\* mutant: the cell counts atoms (grid[...] += 1.)
SetCell_count(g, idx, ch) ==
    [g EXCEPT !.cells[CellAt(g, idx, ch)] = @ + 1]

\* mutant: the atom marks its voxel in every channel (grid[x, y, z] = 1.)
SetCell_allChannels(g, idx, ch) ==
    [g EXCEPT !.cells =
        [c \in DOMAIN g.cells |->
            IF <<c[1], c[2], c[3]>> =
               <<CellAt(g, idx, ch)[1], CellAt(g, idx, ch)[2],
                 CellAt(g, idx, ch)[3]>>
            THEN 1 ELSE g.cells[c]]]

\* mutant: a voxel keeps the channel of the last atom only
SetCell_oneHot(g, idx, ch) ==
    [g EXCEPT !.cells =
        [c \in DOMAIN g.cells |->
            IF <<c[1], c[2], c[3]>> =
               <<CellAt(g, idx, ch)[1], CellAt(g, idx, ch)[2],
                 CellAt(g, idx, ch)[3]>>
            THEN (IF c[4] = CellAt(g, idx, ch)[4] THEN 1 ELSE 0)
            ELSE g.cells[c]]]

\* grid[position[0], position[1], position[2], ch] = 1.
SetCell(g, idx, ch) == [g EXCEPT !.cells[CellAt(g, idx, ch)] = 1]

\* mutant: an atom whose symbol is not in the list is skipped
LoopBody_skipUnknown(g, bb, ps, m, k, oldpos) ==
    IF k > Len(ps)
    THEN [grid |-> g, position |-> oldpos, err |-> "IndexError"]
    ELSE LET idx == PositionOf(ps[k], bb)
         IN  IF ~InList(symbols, m[k].element)
             THEN [grid |-> g, position |-> idx, err |-> "none"]
             ELSE LET ch == IndexOf(symbols, m[k].element)
                  IN  IF /\ \A a \in Axes : IndexOk(idx[a], g.shape[a])
                         /\ IndexOk(ch, g.shape[4])
                      THEN [grid |-> SetCell(g, idx, ch), position |-> idx,
                            err |-> "none"]
                      ELSE [grid |-> g, position |-> idx,
                            err |-> "IndexError"]

\* One iteration of the loop for the k-th atom (k counted from 1):
\*     symbol = atom.GetSymbol()
\*     position = np.floor(pos[i] - bounding_box[0]).astype(int)
\*     grid[position[0], position[1], position[2], symbols.index(symbol)] = 1.
\* pos[i] raises IndexError past the end of pos; the subscript is evaluated
\* left to right before the store, so symbols.index raises ValueError before
\* the grid is indexed; the store raises IndexError for an index out of range.
LoopBody(g, bb, ps, m, k, oldpos) ==
    IF k > Len(ps)
    THEN [grid |-> g, position |-> oldpos, err |-> "IndexError"]
    ELSE LET idx == PositionOf(ps[k], bb)
         IN  IF ~InList(symbols, m[k].element)
             THEN [grid |-> g, position |-> idx, err |-> "ValueError"]
             ELSE LET ch == IndexOf(symbols, m[k].element)
                  IN  IF /\ \A a \in Axes : IndexOk(idx[a], g.shape[a])
                         /\ IndexOk(ch, g.shape[4])
                      THEN [grid |-> SetCell(g, idx, ch), position |-> idx,
                            err |-> "none"]
                      ELSE [grid |-> g, position |-> idx,
                            err |-> "IndexError"]

\* The whole loop from atom k on: stops at the first iteration that raises.
RECURSIVE RunLoop(_, _, _, _, _, _)
RunLoop(g, bb, ps, m, k, oldpos) ==
    IF k > Len(m)
    THEN [grid |-> g, position |-> oldpos, err |-> "none", i |-> k - 1]
    ELSE LET r == LoopBody(g, bb, ps, m, k, oldpos)
         IN  IF r.err # "none"
             THEN [grid |-> r.grid, position |-> r.position, err |-> r.err,
                   i |-> k - 1]
             ELSE RunLoop(r.grid, bb, ps, m, k + 1, r.position)

\* The cells from GetPositions to the end of the loop, run once in order on
\* a molecule with at least one atom.
Voxelize(m) ==
    LET ps == PositionsOf(m)
        bb == BoundingBoxOf(ps)
        sz == BoxSizeOf(bb)
        r == RunLoop(Zeros(sz), bb, ps, m, 1, <<0, 0, 0>>)
    IN  [bounding_box |-> bb, box_size |-> sz, grid |-> r.grid,
         position |-> r.position, err |-> r.err, i |-> r.i]

----------------------------------------------------------------------------
(* Notebook state *)

NoVec == <<0, 0, 0>>

NoGrid == [shape |-> <<0, 0, 0, 0>>, cells |-> <<>>]

Interactive == next = "any"

\* the cell can be started: the kernel is idle, and under run-all it is the
\* next cell in document order
CanRun(cell) == pc = "idle" /\ (Interactive \/ next = cell)

\* where run-all goes after a cell: on, or nowhere once a cell has raised
After(cell, e) ==
    IF Interactive THEN "any"
    ELSE IF e # "none" THEN "halted"
    ELSE CASE cell = "load" -> "pos"
           [] cell = "pos" -> "bbox"
           [] cell = "bbox" -> "size"
           [] cell = "size" -> "grid"
           [] cell = "grid" -> "loop"
           [] OTHER -> "done"

InitGlobals ==
    /\ mol = <<>>
    /\ pos = <<>>
    /\ bounding_box = <<NoVec, NoVec>>
    /\ box_size = NoVec
    /\ grid = NoGrid
    /\ position = NoVec
    /\ i = 0
    /\ defined = {}
    /\ pc = "idle"
    /\ err = "none"
    /\ loads = 0

Init == InitGlobals /\ next = "load"

InitRerun == InitGlobals /\ next = "any"

\* mol = Chem.MolFromPDBFile('../L4-molecular-docking/4ivt.pdb')
LoadMol ==
    /\ CanRun("load")
    /\ Interactive => loads < MaxLoads
    /\ \E m \in (IF Interactive THEN RerunMols ELSE Mols) : mol' = m
    /\ defined' = defined \cup {"mol"}
    /\ loads' = loads + 1
    /\ err' = "none"
    /\ next' = After("load", "none")
    /\ UNCHANGED <<pos, bounding_box, box_size, grid, position, i, pc>>

\* pos = mol.GetConformer().GetPositions()
\* For a structure without atoms the library either raises (no molecule, no
\* conformer) or returns an array without rows.
GetPositions ==
    /\ CanRun("pos")
    /\ \E raises \in BOOLEAN :
         IF "mol" \notin defined
         THEN /\ raises
              /\ err' = "NameError"
              /\ UNCHANGED <<pos, defined>>
         ELSE IF Len(mol) = 0 /\ raises
         THEN /\ err' = "ValueError"
              /\ UNCHANGED <<pos, defined>>
         ELSE /\ Len(mol) > 0 => ~raises
              /\ pos' = PositionsOf(mol)
              /\ defined' = defined \cup {"pos"}
              /\ err' = "none"
    /\ next' = After("pos", err')
    /\ UNCHANGED <<mol, bounding_box, box_size, grid, position, i, pc, loads>>

\* mutant: the bounding box of no atoms is the empty box at the origin
ComputeBoundingBox_noCheck ==
    /\ CanRun("bbox")
    /\ IF "pos" \notin defined
       THEN /\ err' = "NameError"
            /\ UNCHANGED <<bounding_box, defined>>
       ELSE /\ bounding_box' = IF Len(pos) = 0 THEN <<NoVec, NoVec>>
                                ELSE BoundingBoxOf(pos)
            /\ defined' = defined \cup {"bounding_box"}
            /\ err' = "none"
    /\ next' = After("bbox", err')
    /\ UNCHANGED <<mol, pos, box_size, grid, position, i, pc, loads>>

\* bounding_box = np.floor(pos.min(axis=0)), np.ceil(pos.max(axis=0))
\* min/max over an array without rows raise ValueError
ComputeBoundingBox ==
    /\ CanRun("bbox")
    /\ IF "pos" \notin defined
       THEN /\ err' = "NameError"
            /\ UNCHANGED <<bounding_box, defined>>
       ELSE IF Len(pos) = 0
       THEN /\ err' = "ValueError"
            /\ UNCHANGED <<bounding_box, defined>>
       ELSE /\ bounding_box' = BoundingBoxOf(pos)
            /\ defined' = defined \cup {"bounding_box"}
            /\ err' = "none"
    /\ next' = After("bbox", err')
    /\ UNCHANGED <<mol, pos, box_size, grid, position, i, pc, loads>>

\* box_size = (bounding_box[1] - bounding_box[0]).astype(int)
ComputeBoxSize ==
    /\ CanRun("size")
    /\ IF "bounding_box" \notin defined
       THEN /\ err' = "NameError"
            /\ UNCHANGED <<box_size, defined>>
       ELSE /\ box_size' = BoxSizeOf(bounding_box)
            /\ defined' = defined \cup {"box_size"}
            /\ err' = "none"
    /\ next' = After("size", err')
    /\ UNCHANGED <<mol, pos, bounding_box, grid, position, i, pc, loads>>

\* grid = np.zeros([*box_size, 4]); a negative dimension raises ValueError
AllocateGrid ==
    /\ CanRun("grid")
    /\ IF "box_size" \notin defined
       THEN /\ err' = "NameError"
            /\ UNCHANGED <<grid, defined>>
       ELSE IF \E a \in Axes : box_size[a] < 0
       THEN /\ err' = "ValueError"
            /\ UNCHANGED <<grid, defined>>
       ELSE /\ grid' = Zeros(box_size)
            /\ defined' = defined \cup {"grid"}
            /\ err' = "none"
    /\ next' = After("grid", err')
    /\ UNCHANGED <<mol, pos, bounding_box, box_size, position, i, pc, loads>>

\* for i, atom in enumerate(mol.GetAtoms()):   (entering the loop)
LoopBegin ==
    /\ CanRun("loop")
    /\ IF "mol" \notin defined
       THEN /\ err' = "NameError"
            /\ next' = After("loop", "NameError")
            /\ UNCHANGED <<pc, i>>
       ELSE /\ err' = "none"
            /\ pc' = "loop"
            /\ i' = 0
            /\ UNCHANGED next
    /\ UNCHANGED <<mol, pos, bounding_box, box_size, grid, position,
                   defined, loads>>

\* one iteration: the atom at 0-based index i
LoopStep ==
    /\ pc = "loop"
    /\ i < Len(mol)
    /\ IF {"pos", "bounding_box", "grid"} \subseteq defined
       THEN LET r == LoopBody(grid, bounding_box, pos, mol, i + 1, position)
            IN  /\ grid' = r.grid
                /\ position' = r.position
                /\ err' = r.err
       ELSE /\ err' = "NameError"
            /\ UNCHANGED <<grid, position>>
    /\ IF err' = "none"
       THEN /\ i' = i + 1
            /\ UNCHANGED <<pc, next>>
       ELSE /\ pc' = "idle"
            /\ next' = After("loop", err')
            /\ UNCHANGED i
    /\ UNCHANGED <<mol, pos, bounding_box, box_size, defined, loads>>

\* the iterator is exhausted: the cell ends
LoopEnd ==
    /\ pc = "loop"
    /\ i = Len(mol)
    /\ pc' = "idle"
    /\ next' = After("loop", "none")
    /\ UNCHANGED <<mol, pos, bounding_box, box_size, grid, position, i,
                   defined, err, loads>>

Next ==
    \/ LoadMol
    \/ GetPositions
    \/ ComputeBoundingBox
    \/ ComputeBoxSize
    \/ AllocateGrid
    \/ LoopBegin
    \/ LoopStep
    \/ LoopEnd

Spec == Init /\ [][Next]_vars

SpecRerun == InitRerun /\ [][Next]_vars

----------------------------------------------------------------------------
(* Properties *)

RunAll == ~Interactive

\* the loop cell has been entered with every cell above it run
LoopEntered ==
    /\ "grid" \in defined
    /\ pc = "loop" \/ next \in {"done", "halted"}

\* the loop cell has ended, normally or by an exception
LoopOver == "grid" \in defined /\ next \in {"done", "halted"}

\* how many atoms the loop has taken up so far (the last one may have raised)
Handled == IF err = "none" THEN i ELSE i + 1

\* the channel of each symbol of the alphabet [C, N, O, S]
ChannelOf(e) ==
    CASE e = "C" -> 0 [] e = "N" -> 1 [] e = "O" -> 2 [] e = "S" -> 3

\* the voxel an atom position falls in, from the box the cells computed
VoxelOf(p) == [a \in Axes |-> (p[a] - bounding_box[1][a] * Scale) \div Scale]

Scenario ==
    << [element |-> "C", p |-> <<2, 3, 1>>],
       [element |-> "N", p |-> <<18, 11, 9>> ] >>

\* C1: (as claimed) with the box and the grid computed from the atoms
\* themselves, the voxel index of every atom the loop takes up lies in
\* [0, box_size[a]) on every axis, and the store never raises IndexError.
C1_BoundingProperty ==
    (RunAll /\ LoopEntered /\ Handled >= 1) =>
        /\ \A a \in Axes : 0 <= position[a] /\ position[a] < box_size[a]
        /\ err # "IndexError"

\* C2: once the loop has processed every atom, each cell holds 0 or 1, and
\* cell (ix, iy, iz, c) is 1 exactly when some atom has element alphabet[c]
\* and falls in voxel (ix, iy, iz); the two-atom scenario completes with box
\* (0,0,0)-(2,2,1), shape (2,2,1,4) and ones at (0,0,0,0) and (1,1,0,1) only.
C2_BinaryOccupancy ==
    /\ (RunAll /\ next = "done") =>
          \A c \in DOMAIN grid.cells :
              /\ grid.cells[c] \in {0, 1}
              /\ grid.cells[c] = 1 <=>
                    \E k \in 1..Len(mol) :
                        /\ mol[k].element \in {"C", "N", "O", "S"}
                        /\ ChannelOf(mol[k].element) = c[4]
                        /\ VoxelOf(pos[k]) = <<c[1], c[2], c[3]>>
    /\ (RunAll /\ mol = Scenario) => next # "halted"
    /\ (RunAll /\ mol = Scenario /\ next = "done") =>
          /\ bounding_box = << <<0, 0, 0>>, <<2, 2, 1>> >>
          /\ grid.shape = <<2, 2, 1, 4>>
          /\ DOMAIN grid.cells = (0..1) \X (0..1) \X (0..0) \X (0..3)
          /\ \A c \in DOMAIN grid.cells :
                grid.cells[c] =
                    IF c \in { <<0, 0, 0, 0>>, <<1, 1, 0, 1>> } THEN 1 ELSE 0

C2_Witness ==
    /\ RunAll /\ next = "done" /\ mol = Scenario
    /\ grid.cells[<<0, 0, 0, 0>>] = 1
    /\ grid.cells[<<1, 1, 0, 1>>] = 1

\* C3: the allocated grid has extent ceil(max) - floor(min) >= 0 of the atom
\* coordinates on each axis and 4 channels; it is all zeros when allocated,
\* and its shape does not change while the loop runs.
C3_GridShape ==
    [][ (RunAll /\ "grid" \in defined') =>
          /\ \A a \in Axes :
                /\ grid'.shape[a] =
                      Ceil(SetMax({ pos'[k][a] : k \in 1..Len(pos') }))
                        - Floor(SetMin({ pos'[k][a] : k \in 1..Len(pos') }))
                /\ grid'.shape[a] >= 0
          /\ grid'.shape[4] = Len(symbols)
          /\ DOMAIN grid'.cells =
                (0..(grid'.shape[1] - 1)) \X (0..(grid'.shape[2] - 1))
                    \X (0..(grid'.shape[3] - 1)) \X (0..3)
          /\ "grid" \notin defined =>
                \A c \in DOMAIN grid'.cells : grid'.cells[c] = 0
          /\ "grid" \in defined => grid'.shape = grid.shape ]_vars

C3_Witness ==
    /\ RunAll /\ next = "done"
    /\ grid.shape = <<3, 1, 1, 4>>
    /\ \E c \in DOMAIN grid.cells : grid.cells[c] = 1

\* C4: when the loop takes up an atom whose symbol is not in the alphabet,
\* that iteration raises ValueError, sets no cell, and ends the loop; the run
\* stops there, so no later atom is processed.
C4_UnknownElement ==
    [][ RunAll =>
          /\ next # "halted"
          /\ (pc = "loop" /\ i < Len(mol)
                /\ mol[i + 1].element \notin {"C", "N", "O", "S"}) =>
                /\ err' = "ValueError"
                /\ grid' = grid
                /\ i' = i
                /\ pc' = "idle"
                /\ next' = "halted" ]_vars

C4_Witness ==
    /\ RunAll /\ LoopOver /\ next = "halted" /\ err = "ValueError"
    /\ i = 0 /\ Len(mol) = 2
    /\ mol[1].element = "P" /\ mol[2].element = "C"
    /\ \A c \in DOMAIN grid.cells : grid.cells[c] = 0

\* C5: (as claimed) whatever box and grid the loop finds, an iteration whose
\* voxel index is outside [0, grid extent) on some axis, above or below,
\* raises IndexError and leaves the grid as it was.
C5_OutOfBoundsIsError ==
    [][ ( /\ pc = "loop" /\ i < Len(mol)
          /\ {"pos", "bounding_box", "grid"} \subseteq defined
          /\ i + 1 <= Len(pos)
          /\ mol[i + 1].element \in {"C", "N", "O", "S"}
          /\ \E a \in Axes :
                \/ VoxelOf(pos[i + 1])[a] < 0
                \/ VoxelOf(pos[i + 1])[a] >= grid.shape[a] ) =>
            (err' = "IndexError" /\ grid' = grid) ]_vars

\* C6: when the loop is over, voxelizing the same atoms with any one of them
\* appended a second time gives the same box, shape, cells and outcome; no
\* cell exceeds 1.
C6_IdempotentOccupancy ==
    (RunAll /\ LoopOver) =>
        \A k \in 1..Len(mol) :
            LET r == Voxelize(Append(mol, mol[k]))
            IN  /\ r.bounding_box = bounding_box
                /\ r.box_size = box_size
                /\ r.grid.shape = grid.shape
                /\ r.grid.cells = grid.cells
                /\ r.err = err
                /\ \A c \in DOMAIN r.grid.cells : r.grid.cells[c] <= 1

C6_Witness ==
    /\ RunAll /\ next = "done" /\ Len(mol) = 2 /\ mol[1] = mol[2]
    /\ Cardinality({ c \in DOMAIN grid.cells : grid.cells[c] = 1 }) = 1

\* C7: an iteration that succeeds changes at most the cell
\* (ix, iy, iz, channel of the atom's element); every other cell keeps its
\* value and the set of cells is the same.
C7_ChannelIsolation ==
    [][ (RunAll /\ pc = "loop" /\ pc' = "loop") =>
          /\ DOMAIN grid'.cells = DOMAIN grid.cells
          /\ position' = VoxelOf(pos[i + 1])
          /\ \A c \in DOMAIN grid.cells :
                c # << position'[1], position'[2], position'[3],
                       ChannelOf(mol[i + 1].element) >>
                    => grid'.cells[c] = grid.cells[c] ]_vars

C7_Witness ==
    /\ RunAll /\ pc = "loop" /\ i = 2
    /\ mol[1].element = "S" /\ mol[2].element = "N"
    /\ pos[1] = pos[2]
    /\ { c[4] : c \in { d \in DOMAIN grid.cells : grid.cells[d] = 1 } }
          = {1, 3}

\* C8: an atom exactly at box.min gets voxel index (0, 0, 0); on every axis
\* where an atom lies in [box.max - 1, box.max) it gets index box_size - 1.
C8_BoundaryInclusion ==
    (RunAll /\ LoopEntered /\ Handled >= 1) =>
        LET p == pos[Handled]
        IN  /\ (\A a \in Axes : p[a] = bounding_box[1][a] * Scale)
                  => position = <<0, 0, 0>>
            /\ \A a \in Axes :
                  ( /\ bounding_box[2][a] * Scale - Scale <= p[a]
                    /\ p[a] < bounding_box[2][a] * Scale )
                  => position[a] = box_size[a] - 1

C8_Witness ==
    /\ RunAll /\ next = "done" /\ Len(mol) = 2
    /\ \A a \in Axes : pos[1][a] = bounding_box[1][a] * Scale
    /\ grid.cells[<<0, 0, 0, ChannelOf(mol[1].element)>>] = 1
    /\ \A a \in Axes :
          /\ bounding_box[2][a] * Scale - Scale <= pos[2][a]
          /\ pos[2][a] < bounding_box[2][a] * Scale
          /\ position[a] = box_size[a] - 1
    /\ box_size[1] = 2

\* C9: for a file without atoms the run stops with an error at the positions
\* or the bounding-box cell; no bounding box, box size or grid is produced.
C9_EmptyInput ==
    (RunAll /\ "mol" \in defined /\ Len(mol) = 0) =>
        /\ defined \subseteq {"mol", "pos"}
        /\ bounding_box = <<NoVec, NoVec>>
        /\ box_size = NoVec
        /\ grid = NoGrid
        /\ next \in {"pos", "bbox", "halted"}
        /\ next = "halted" => err # "none"

C9_Witness ==
    /\ RunAll /\ "pos" \in defined /\ Len(mol) = 0 /\ Len(pos) = 0
    /\ next = "halted" /\ err = "ValueError"

Perms(m) ==
    { [k \in 1..Len(m) |-> m[f[k]]] : f \in Permutations(1..Len(m)) }

\* C10: a completed run gives the box, shape and grid that every permutation
\* of the atoms gives; an iteration never resets a cell from 1, each
\* iteration advances by one atom and the loop ends after the last one.
C10_OrderIndependence ==
    [][ RunAll =>
          /\ (pc = "loop" /\ pc' = "loop") =>
                /\ i' = i + 1
                /\ i' <= Len(mol)
                /\ \A c \in DOMAIN grid.cells :
                      grid.cells[c] = 1 => grid'.cells[c] = 1
          /\ next' = "done" =>
                /\ i' = Len(mol')
                /\ \A q \in Perms(mol') :
                      LET r == Voxelize(q)
                      IN  /\ r.err = "none"
                          /\ r.bounding_box = bounding_box'
                          /\ r.box_size = box_size'
                          /\ r.grid = grid' ]_vars

C10_Witness ==
    /\ RunAll /\ next = "done" /\ Len(mol) = 2 /\ i = 2
    /\ mol[1].element # mol[2].element
    /\ pos[1] # pos[2]
    /\ Cardinality({ c \in DOMAIN grid.cells : grid.cells[c] = 1 }) = 2

====
